---- MODULE Spec2Model ----
(***************************************************************************)
(* Particle-log post-processing: line parsing, section splitting,          *)
(* cross-section classification, bucket averages and the two drivers       *)
(* (LogFileProcessor in logfile_processor.py, Main in main.py).            *)
(*                                                                         *)
(* Reals are fixed-point integers: a value v is held as v * Scale.         *)
(* A log line is held by what the code's searches can see in it: whether   *)
(* it contains "STOP", whether it contains "LogBlueprintUserMessages",     *)
(* and the text matched by each of the four token patterns (<<>> when the  *)
(* pattern does not match).  Numerals are sequences of characters drawn    *)
(* from the class [-.\d] that the patterns accept.                         *)
(***************************************************************************)
EXTENDS Integers, Sequences, FiniteSets, TLC

\* ------------------------------------------------------------------ bounds

\* longest log tail (lines after the leading delimiter lines) of a run
MaxLines == 3
\* number of leading delimiter lines of the padded logs of a run
PadStops == 18
\* longest section / section sequence handed to a single function
MaxFnLen == 3
\* longest record array handed to determine_xs
MaxDataLen == 2
\* largest section number handed to determine_xs
MaxSectionNumber == 61
\* largest raw cross-section id of a record handed to determine_xs
MaxXsRaw == 5
\* longest report handed to calculate_pandas_values on its own
MaxRows == 3

\* fixed-point scale: a real v is the integer v * Scale
Scale == 10000

\* ------------------------------------------------------------- config.py

DefaultPath == "TechnicalFishPassOneSectionC150KShort.log"

\* public names that "from config import *" binds in the importing module
\* (names with a leading underscore are not exported)
ConfigNames ==
    { "os", "subprocess", "plt", "np", "re", "pd", "GridSpec",
      "LinearSegmentedColormap", "MultipleLocator", "get_file_path",
      "set_file_path", "xs_limits", "vmax", "radius", "limit_Data", "limit",
      "var1", "var2", "var3" }

XsKeys == {11, 12, 21, 22, 31, 32, 41, 42}

\* xs_limits as (left, right) * Scale
xs_limits ==
    [k \in XsKeys |->
        CASE k \in {11, 12} -> <<-11000, 13000>>
          [] k \in {41, 42} -> <<-14000, 13000>>
          [] OTHER          -> <<-25000, 14000>>]

limit_Data == FALSE

var1 == 27
var2 == 28
var3 == 29

\* ---------------------------------------------------------------- numerals

DigitChars == <<"0", "1", "2", "3", "4", "5", "6", "7", "8", "9">>

IsDigit(c) == \E i \in 1..10 : DigitChars[i] = c

DigitVal(c) == (CHOOSE i \in 1..10 : DigitChars[i] = c) - 1

RECURSIVE IntOfDigits(_)
\* int() of a run of digits
IntOfDigits(ds) ==
    IF ds = <<>> THEN 0
    ELSE 10 * IntOfDigits(SubSeq(ds, 1, Len(ds) - 1)) + DigitVal(ds[Len(ds)])

Unsigned(s) == IF Len(s) > 0 /\ s[1] = "-" THEN Tail(s) ELSE s

\* does float() accept the text?  One optional leading sign, at most one
\* point, at least one digit.
IsFloat(s) ==
    LET body == Unsigned(s)
    IN  /\ \A i \in 1..Len(body) : body[i] # "-"
        /\ Cardinality({i \in 1..Len(body) : body[i] = "."}) <= 1
        /\ \E i \in 1..Len(body) : IsDigit(body[i])

\* position of the point in an unsigned numeral, Len + 1 when there is none
PointAt(body) ==
    IF \E i \in 1..Len(body) : body[i] = "."
    THEN CHOOSE i \in 1..Len(body) : body[i] = "."
    ELSE Len(body) + 1

\* the fraction digits as a number of 1/Scale (four digits are kept)
FracScaled(fs) ==
    LET padded == SubSeq(fs \o <<"0", "0", "0", "0">>, 1, 4)
    IN  IntOfDigits(padded)

\* float(s) * Scale for a text float() accepts
FloatOf(s) ==
    LET body == Unsigned(s)
        p    == PointAt(body)
        mag  == IntOfDigits(SubSeq(body, 1, p - 1)) * Scale
                  + FracScaled(SubSeq(body, p + 1, Len(body)))
    IN  IF Len(s) > 0 /\ s[1] = "-" THEN 0 - mag ELSE mag

\* x / 100
Div100(x) == IF x >= 0 THEN x \div 100 ELSE 0 - ((0 - x) \div 100)

\* round(num / den, ndigits) where unit == Scale / 10^ndigits: the nearest
\* multiple of unit, a tie going to the even multiple
RoundTo(num, den, unit) ==
    LET mag  == IF num >= 0 THEN num ELSE 0 - num
        q    == mag \div (den * unit)
        r    == mag % (den * unit)
        up   == \/ 2 * r > den * unit
                \/ 2 * r = den * unit /\ q % 2 = 1
        res  == (IF up THEN q + 1 ELSE q) * unit
    IN  IF num >= 0 THEN res ELSE 0 - res

\* round(x, 3)
Round3(x) == RoundTo(x, 1, Scale \div 1000)

\* ------------------------------------------------------------------- lines

Line(stop, tag, key, vector, velocity, xs) ==
    [stop |-> stop, tag |-> tag, key |-> key, vector |-> vector,
     velocity |-> velocity, xs |-> xs]

\* results of a call: a value, or an exception that propagates
Ok(v) == [kind |-> "ok", val |-> v, exc |-> "none"]
Raise(e) == [kind |-> "raise", val |-> <<>>, exc |-> e]
\* parse_line's "return None"
None == [kind |-> "none", val |-> <<>>, exc |-> "none"]

\* ---------------------------------------------- get_particle_attributes.py

\* float(y_match.group(1)) / 100, float(z_match.group(1)) / 100
extract_vector_components(line) ==
    IF ~IsFloat(line.vector[2]) \/ ~IsFloat(line.vector[3])
    THEN Raise("ValueError")
    ELSE Ok(<<Div100(FloatOf(line.vector[2])), Div100(FloatOf(line.vector[3]))>>)

\* round(float(...) / 100, 3)
extract_velocity(line) ==
    IF ~IsFloat(line.velocity)
    THEN Raise("ValueError")
    ELSE Ok(Round3(Div100(FloatOf(line.velocity))))

\* a malformed numeral skipped like a line without the tokens
MakeRecord_skip(yz, velocity, xs_digits) ==
    IF yz.kind = "raise" \/ velocity.kind = "raise" THEN None
    ELSE Ok(<<yz.val[1], yz.val[2], velocity.val, IntOfDigits(xs_digits)>>)

\* lines 75-78: the record of a line all four patterns match
MakeRecord(yz, velocity, xs_digits) ==
    IF yz.kind = "raise" THEN yz
    ELSE IF velocity.kind = "raise" THEN velocity
    ELSE Ok(<<yz.val[1], yz.val[2], velocity.val, IntOfDigits(xs_digits)>>)

\* the KEY pattern left out of the condition
parse_line_keyless(line) ==
    IF line.vector # <<>> /\ line.velocity # <<>> /\ line.xs # <<>>
    THEN MakeRecord(extract_vector_components(line), extract_velocity(line), line.xs)
    ELSE None

parse_line(line) ==
    IF line.key /\ line.vector # <<>> /\ line.velocity # <<>> /\ line.xs # <<>>
    THEN MakeRecord(extract_vector_components(line), extract_velocity(line), line.xs)
    ELSE None

\* lines 27-41: the loop over the lines of the file and the trailing section
RECURSIVE SplitFrom(_, _, _, _)
SplitFrom(lines, i, sections, current_section) ==
    IF i > Len(lines)
    THEN IF current_section # <<>>
         THEN Append(sections, current_section)
         ELSE sections
    ELSE IF lines[i].stop
         THEN SplitFrom(lines, i + 1, Append(sections, current_section), <<>>)
         ELSE SplitFrom(lines, i + 1, sections, Append(current_section, lines[i]))

\* the trailing section appended without the test of line 38
extract_sections_keep_tail(lines) ==
    IF lines # <<>> /\ lines[Len(lines)].stop
    THEN Append(SplitFrom(lines, 1, <<>>, <<>>), <<>>)
    ELSE SplitFrom(lines, 1, <<>>, <<>>)

HasLines(section) == section # <<>>

\* a section appended at a delimiter only if it has lines, as line 38 does
\* for the trailing section
extract_sections_skip_empty(lines) ==
    SelectSeq(SplitFrom(lines, 1, <<>>, <<>>), HasLines)

\* the sections of a file with the given lines
extract_sections(lines) == SplitFrom(lines, 1, <<>>, <<>>)

\* the first exception of a sequence of call results, "none" when none raises
FirstRaise(rs) ==
    IF \E i \in 1..Len(rs) : rs[i].kind = "raise"
    THEN rs[CHOOSE i \in 1..Len(rs) :
                /\ rs[i].kind = "raise"
                /\ \A j \in 1..(i - 1) : rs[j].kind # "raise"].exc
    ELSE "none"

IsTagged(line) == line.tag

IsRecord(r) == r.kind = "ok"

Vals(rs) == [i \in 1..Len(rs) |-> rs[i].val]

\* line 54: the parses that are records, unless a parse raised
KeepRecords(valid_particles) ==
    IF FirstRaise(valid_particles) # "none"
    THEN Raise(FirstRaise(valid_particles))
    ELSE Ok(Vals(SelectSeq(valid_particles, IsRecord)))

\* parse_line over the lines the condition of the comprehension lets through
ParseAll(lines) == KeepRecords([i \in 1..Len(lines) |-> parse_line(lines[i])])

\* the comprehension without its condition
extract_valid_particles_every_line(section) == ParseAll(section)

extract_valid_particles(section) == ParseAll(SelectSeq(section, IsTagged))

\* Calculation.__call__ of calculation.py: LineParser applied to every line
Calculation_call(section) == ParseAll(section)

\* self(section) for the calculator class the driver constructs
CallCalculator(self, section) ==
    IF self = "Calculation"
    THEN Calculation_call(section)
    ELSE extract_valid_particles(section)

RECURSIVE SumColumn(_, _)
\* data[:, col].sum()
SumColumn(data, col) ==
    IF data = <<>> THEN 0
    ELSE data[1][col] + SumColumn(Tail(data), col)

\* round(np.mean(data[:, 2]), 3) if data.size > 0 else 0
calculate_average_velocity(data) ==
    IF Len(data) > 0
    THEN RoundTo(SumColumn(data, 3), Len(data), Scale \div 1000)
    ELSE 0

RECURSIVE SumSquares(_, _)
SumSquares(data, unit) ==
    IF data = <<>> THEN 0
    ELSE (data[1][3] \div unit) * (data[1][3] \div unit)
           + SumSquares(Tail(data), unit)

RECURSIVE HalfSteps(_, _, _, _)
\* the largest h in lo..hi with h * h * n * n <= 4 * a: floor(2 * sqrt(a) / n)
HalfSteps(lo, hi, a, n) ==
    IF lo = hi THEN lo
    ELSE LET mid == (lo + hi + 1) \div 2
         IN  IF mid * mid * n * n <= 4 * a
             THEN HalfSteps(mid, hi, a, n)
             ELSE HalfSteps(lo, mid - 1, a, n)

\* largest standard deviation (in 1/1000) the search looks for
MaxStdMilli == 4000

\* h / 2 rounded to an integer, h == floor(2 * sqrt(a) / n): up when the
\* half is there, a tie (sqrt(a) / n exactly q + 1/2) going to the even one
RoundHalfSteps(h, a, n) ==
    IF h % 2 = 1 /\ (h * h * n * n # 4 * a \/ (h \div 2) % 2 = 1)
    THEN (h \div 2) + 1
    ELSE h \div 2

\* sqrt(n * sum(v^2) - sum(v)^2) / n in 1/1000, rounded
StdMilli(n, s, sq) ==
    RoundHalfSteps(HalfSteps(0, 2 * MaxStdMilli, n * sq - s * s, n), n * sq - s * s, n)

\* round(np.std(data[:, 2]), 3) if data.size > 0 else 0: the population
\* standard deviation of the velocities
calculate_standard_deviation(data) ==
    IF Len(data) > 0
    THEN StdMilli(Len(data), SumColumn(data, 3) \div (Scale \div 1000),
                  SumSquares(data, Scale \div 1000)) * (Scale \div 1000)
    ELSE 0

\* determine_xs's "return None"
Unresolved == 0

\* round() in the place of int(): the mean to the nearest integer
determine_xs_rounded(data, section_number) ==
    LET xs_value == RoundTo(SumColumn(data, 4), Len(data), 1)
    IN  CASE xs_value = 1 -> (IF section_number < 20 THEN 11 ELSE 12)
          [] xs_value = 4 -> (IF section_number < 40 THEN 41 ELSE 42)
          [] xs_value = 2 -> (IF section_number < 50 THEN 21 ELSE 22)
          [] xs_value = 3 -> (IF section_number < 60 THEN 31 ELSE 32)
          [] OTHER        -> Unresolved

determine_xs(data, section_number) ==
    LET xs_value == SumColumn(data, 4) \div Len(data)
    IN  CASE xs_value = 1 -> (IF section_number < 20 THEN 11 ELSE 12)
          [] xs_value = 4 -> (IF section_number < 40 THEN 41 ELSE 42)
          [] xs_value = 2 -> (IF section_number < 50 THEN 21 ELSE 22)
          [] xs_value = 3 -> (IF section_number < 60 THEN 31 ELSE 32)
          [] OTHER        -> Unresolved

RECURSIVE XsAccumulate(_, _, _, _, _)
RECURSIVE XsSection(_, _, _, _, _, _)

\* lines 150-153: a section with valid particles adds to its bucket
XsAdd(self, sections, i, xs_totals, xs_counts, valid_particle_count, xs_key) ==
    IF xs_key \in DOMAIN xs_totals
    THEN XsAccumulate(self, sections, i + 1,
                      [xs_totals EXCEPT ![xs_key] = @ + valid_particle_count],
                      [xs_counts EXCEPT ![xs_key] = @ + 1])
    ELSE XsAccumulate(self, sections, i + 1, xs_totals, xs_counts)

\* lines 147-153 for section i with its valid particles; an exception of
\* extract_valid_particles propagates
XsSection(self, sections, i, xs_totals, xs_counts, data) ==
    IF data.kind = "raise" THEN data
    ELSE IF Len(data.val) > 0
         THEN XsAdd(self, sections, i, xs_totals, xs_counts, Len(data.val),
                    determine_xs(data.val, i))
         ELSE XsAccumulate(self, sections, i + 1, xs_totals, xs_counts)

\* the loop of lines 145-153 from section i on
XsAccumulate(self, sections, i, xs_totals, xs_counts) ==
    IF i > Len(sections)
    THEN Ok(<<xs_totals, xs_counts>>)
    ELSE XsSection(self, sections, i, xs_totals, xs_counts,
                   CallCalculator(self, sections[i]))

\* the quotient cut to one decimal instead of rounded
XsAverage_cut(total, count) ==
    IF count > 0 THEN ((total * 10) \div count) * (Scale \div 10) ELSE 0

\* lines 155-160, the average * Scale
XsAverage(total, count) ==
    IF count > 0 THEN RoundTo(total * Scale, count, Scale \div 10) ELSE 0

XsAverages(acc) ==
    IF acc.kind = "raise" THEN acc
    ELSE Ok([xs_key \in DOMAIN acc.val[1] |->
                XsAverage(acc.val[1][xs_key], acc.val[2][xs_key])])

XsZero == [k \in XsKeys |-> 0]

calculate_average_particle_count(self, sections) ==
    XsAverages(XsAccumulate(self, sections, 1, XsZero, XsZero))

\* ------------------------------------------------------------- plotter.py

\* velocity threshold of config.py, * Scale
limit == 300

RowAtLeast(row) == row[3] >= limit

\* data[data[:, 2] >= limit]
reduce_particles(data) == SelectSeq(data, RowAtLeast)

\* Plotter.__call__ -> plot_data -> _save: the image file written for a
\* section; _scatter takes the minimum of the first column and raises on an
\* empty array
Plotter_call(data, avg_particles, sd_velocity, valid_particle_count, avg_velocity, section_number) ==
    IF Len(data) = 0
    THEN Raise("ValueError")
    ELSE Ok([section_plot |-> section_number,
             avg_particle |-> avg_particles,
             sd_velocity |-> sd_velocity,
             valid_particle_count |-> valid_particle_count,
             avg_velocity |-> avg_velocity])

\* ------------------------------------- logfile_processor.py and main.py

create_pictures(data, avg_particle, sd_velocity, valid_particle_count, avg_velocity, section_number) ==
    IF limit_Data
    THEN Plotter_call(reduce_particles(data), avg_particle, sd_velocity,
                      valid_particle_count, avg_velocity, section_number)
    ELSE Plotter_call(data, avg_particle, sd_velocity,
                      valid_particle_count, avg_velocity, section_number)

\* the calculator class each driver constructs
CalculatorOf(drv) ==
    IF drv = "Main" THEN "Calculation" ELSE "ParticleAttibuteCalculator"

Drivers == {"LogFileProcessor", "Main"}

\* the row process_section appends
Row(current_xs, valid_particle_count, avg_particle, sd_velocity, avg_velocity) ==
    [xs |-> current_xs,
     valid_particle_count |-> valid_particle_count,
     avg_particle |-> avg_particle,
     sd_velocity |-> sd_velocity,
     avg_velocity |-> avg_velocity]

Msg(kind, n) == [kind |-> kind, n |-> n]

\* the orders in which the n rows of a frame can be rearranged
Orders(n) ==
    {p \in [1..n -> 1..n] : \A i, j \in 1..n : p[i] = p[j] => i = j}

\* the frame whose k-th row is row p[k] of rows
Reorder(rows, p) == [k \in 1..Len(rows) |-> rows[p[k]]]

\* sorted the wrong way round: ascending, the default of sort_values
sort_values_ascending(rows) ==
    {Reorder(rows, p) : p \in
        {q \in Orders(Len(rows)) :
            \A k \in 1..(Len(rows) - 1) :
                rows[q[k]].sd_velocity <= rows[q[k + 1]].sd_velocity}}

\* df.sort_values(by=['sd_velocity'], ascending=False): kind is left at its
\* default 'quicksort', which is not a stable algorithm, so rows of equal
\* sd_velocity come out in any order; the set of the frames it can return
sort_values(rows) ==
    {Reorder(rows, p) : p \in
        {q \in Orders(Len(rows)) :
            \A k \in 1..(Len(rows) - 1) :
                rows[q[k]].sd_velocity >= rows[q[k + 1]].sd_velocity}}

RECURSIVE SumSd(_)
SumSd(rows) ==
    IF rows = <<>> THEN 0 ELSE rows[1].sd_velocity + SumSd(Tail(rows))

\* ------------------------------------------------------------------- state

VARIABLES
    driver,          \* the driver class that runs
    file_path,       \* the global file_path of module get_particle_attributes
    cfg_file_path,   \* config._file_path
    log,             \* the lines of the log file
    pc,              \* position of the run
    exc,             \* the exception that ended the run, "none" otherwise
    opened,          \* the path extract_sections opened
    sections,        \* the sections extract_sections returned
    avg_particles,   \* result of calculate_average_particle_count
    section_number,  \* the loop variable of __call__
    data_list,       \* self.data_list
    plots,           \* the image files written, in order
    stdout,          \* what the drivers printed
    csv,             \* the rows of Values.csv, <<"absent">> before it is written
    df_sorted,       \* the sorted frame of calculate_pandas_values
    mean_value,      \* mean of sd_velocity as <<sum, count>>
    call,            \* a single function call: the function and its arguments
    ret              \* its result

vars == <<driver, file_path, cfg_file_path, log, pc, exc, opened, sections,
          avg_particles, section_number, data_list, plots, stdout, csv,
          df_sorted, mean_value, call, ret>>

runVars == <<driver, file_path, cfg_file_path, log, pc, exc, opened, sections,
             avg_particles, section_number, data_list, plots, stdout, csv,
             df_sorted, mean_value>>

\* ------------------------------------------------------------------ inputs

N150 == <<"1", "5", "0">>
N80 == <<"8", "0">>
N120 == <<"1", "2", "0">>
N126 == <<"1", ".", "2", "6">>
NNeg == <<"-", "2", "5">>
NDash == <<"-">>
NDots == <<"1", ".", "2", ".", "3">>

GoodVector == <<N150, N150, N80>>

StopLine == Line(TRUE, FALSE, FALSE, <<>>, <<>>, <<>>)
Noise == Line(FALSE, TRUE, FALSE, <<>>, <<>>, <<>>)
Particle(xs, velocity) == Line(FALSE, TRUE, TRUE, GoodVector, velocity, xs)
\* all four tokens on a line without "LogBlueprintUserMessages"
Untagged == Line(FALSE, FALSE, TRUE, GoodVector, N120, <<"1">>)
\* a malformed velocity numeral
BadVelocity == Line(FALSE, TRUE, TRUE, GoodVector, NDash, <<"1">>)
\* a malformed numeral in the X component, which no code parses
BadX == Line(FALSE, TRUE, TRUE, <<NDots, N150, N80>>, N120, <<"1">>)
\* a malformed numeral on a line without "LogBlueprintUserMessages"
BadUntagged == Line(FALSE, FALSE, TRUE, <<N150, NDash, N80>>, N120, <<"1">>)

RunLines ==
    { StopLine, Noise, Particle(<<"1">>, N120), Particle(<<"4">>, N80),
      Particle(<<"5">>, N120), Untagged, BadVelocity, BadX }

RECURSIVE SeqsUpTo(_, _)
\* the sequences over S of length at most n
SeqsUpTo(S, n) ==
    IF n = 0 THEN {<<>>}
    ELSE LET shorter == SeqsUpTo(S, n - 1)
         IN  shorter \cup {Append(q, x) : q \in shorter, x \in S}

Stops(n) == [i \in 1..n |-> StopLine]

\* the particle lines of a section of one or two particles
SectionsOfParticles ==
    { <<Particle(<<"1">>, N120)>>, <<Particle(<<"1">>, N120), Particle(<<"1">>, N80)>>,
      <<Particle(<<"4">>, N80)>> }

\* logs of two sections that differ in their number of particles
TwoSectionLogs ==
    {first \o <<StopLine>> \o second :
        first \in SectionsOfParticles, second \in SectionsOfParticles}

Logs ==
    {Stops(k) \o tail : k \in {0, PadStops}, tail \in SeqsUpTo(RunLines, MaxLines)}
    \cup {Stops(k) \o tail : k \in {0, PadStops}, tail \in TwoSectionLogs}

NoArg == "<no argument>"
CliPath == "other.log"

NoCall == [fn |-> "none", lines |-> <<>>, sections |-> <<>>, data |-> <<>>, n |-> 0]
NoRet == [kind |-> "pending", val |-> <<>>, exc |-> "none"]

\* ----------------------------------------------------------------- the run

Init ==
    /\ driver \in Drivers
    /\ log \in Logs
    \* config.py binds _file_path, which "from config import *" does not
    \* export: the name file_path is unbound in get_particle_attributes unless
    \* the importing program binds it
    /\ file_path \in (IF "file_path" \in ConfigNames THEN {DefaultPath} ELSE {"<unbound>"})
                       \cup (IF driver = "LogFileProcessor" THEN {DefaultPath} ELSE {})
    /\ cfg_file_path = DefaultPath
    /\ pc = "main"
    /\ exc = "none"
    /\ opened = "<none>"
    /\ sections = <<>>
    /\ avg_particles = [k \in XsKeys |-> 0]
    /\ section_number = 1
    /\ data_list = <<>>
    /\ plots = <<>>
    /\ stdout = <<>>
    /\ csv = <<"absent">>
    /\ df_sorted = <<>>
    /\ mean_value = <<0, 0>>
    /\ call = NoCall
    /\ ret = NoRet

set_file_path(path) == cfg_file_path' = path

\* an exception propagates out of __call__: the run ends
Abort(e) ==
    /\ pc' = "error"
    /\ exc' = e

\* the __main__ blocks: logfile_processor.py parses the optional positional
\* argument, main.py takes none; then the driver object is built and called
EntryPoint ==
    /\ pc = "main"
    /\ \E logfile \in {NoArg, CliPath} :
          /\ driver = "Main" => logfile = NoArg
          /\ IF logfile # NoArg
             THEN set_file_path(logfile)
             ELSE UNCHANGED cfg_file_path
    /\ data_list' = <<>>
    /\ pc' = "extract_sections"
    /\ UNCHANGED <<driver, file_path, log, exc, opened, sections, avg_particles,
                   section_number, plots, stdout, csv, df_sorted, mean_value,
                   call, ret>>

\* sections = particle_attributes.extract_sections()
ExtractSections ==
    /\ pc = "extract_sections"
    /\ IF driver = "LogFileProcessor" /\ file_path = "<unbound>"
       THEN /\ Abort("NameError")
            /\ UNCHANGED <<opened, sections>>
       ELSE /\ opened' = IF driver = "LogFileProcessor" THEN file_path ELSE cfg_file_path
            /\ sections' = extract_sections(log)
            /\ pc' = "calculate_average_particle_count"
            /\ UNCHANGED exc
    /\ UNCHANGED <<driver, file_path, cfg_file_path, log, avg_particles,
                   section_number, data_list, plots, stdout, csv, df_sorted,
                   mean_value, call, ret>>

StoreAverages(r) ==
    IF r.kind = "raise"
    THEN /\ Abort(r.exc)
         /\ UNCHANGED <<avg_particles, section_number>>
    ELSE /\ avg_particles' = r.val
         /\ section_number' = 1
         /\ pc' = "process_section"
         /\ UNCHANGED exc

\* avg_particles = particle_attributes.calculate_average_particle_count(sections)
CalculateAverageParticleCount ==
    /\ pc = "calculate_average_particle_count"
    /\ StoreAverages(calculate_average_particle_count(CalculatorOf(driver), sections))
    /\ UNCHANGED <<driver, file_path, cfg_file_path, log, opened, sections,
                   data_list, plots, stdout, csv, df_sorted, mean_value,
                   call, ret>>

\* lines 78-82 of setup_section, given the result of the calculator call
SetupOf(data) ==
    IF data.kind = "raise" THEN data
    ELSE Ok(<<data.val, Len(data.val),
              calculate_average_velocity(data.val),
              calculate_standard_deviation(data.val)>>)

\* setup_section: (data, valid_particle_count, avg_velocity, sd_velocity)
setup_section(self, section) == SetupOf(CallCalculator(self, section))

\* xs_limits without the entries 41 and 42 that the first pass counts
NoLimits_without_4(current_xs) == current_xs \notin {11, 12, 21, 22, 31, 32}

\* xs_limits.get(current_xs) is None
NoLimits(current_xs) == current_xs \notin DOMAIN xs_limits

\* the average of the sections read so far, as a single pass would have it
GetAverage_so_far(current_xs) ==
    IF current_xs \in XsKeys
    THEN calculate_average_particle_count(
             CalculatorOf(driver), SubSeq(sections, 1, section_number)).val[current_xs]
    ELSE 0

\* avg_particles.get(current_xs, 0)
GetAverage(current_xs) ==
    IF current_xs \in DOMAIN avg_particles THEN avg_particles[current_xs] ELSE 0

\* the image of create_pictures is written, or its exception propagates
StorePicture(picture) ==
    IF picture.kind = "raise"
    THEN /\ Abort(picture.exc)
         /\ UNCHANGED <<plots, section_number>>
    ELSE /\ plots' = Append(plots, picture.val)
         /\ section_number' = section_number + 1
         /\ UNCHANGED <<pc, exc>>

\* the part of process_section both drivers share: the two prints, the row
\* appended to data_list, the picture
AppendAndPlot(data, current_xs, valid_particle_count, avg_velocity, sd_velocity) ==
    /\ stdout' = stdout \o <<Msg("count", section_number),
                             Msg("average_velocity", section_number)>>
    /\ data_list' = Append(data_list,
                           Row(current_xs, valid_particle_count,
                               GetAverage(current_xs), sd_velocity, avg_velocity))
    /\ StorePicture(create_pictures(data, GetAverage(current_xs), sd_velocity,
                                    valid_particle_count, avg_velocity,
                                    section_number))

\* the section is left without a row and without a picture
SkipSection ==
    /\ section_number' = section_number + 1
    /\ UNCHANGED <<pc, exc, data_list, plots>>

\* without the test of lines 137-139: a row and a picture for every section
\* that has valid particles
LogFileProcessor_process_section_no_skip(data, valid_particle_count, avg_velocity, sd_velocity) ==
    IF valid_particle_count > 0
    THEN AppendAndPlot(data, determine_xs(data, section_number),
                       valid_particle_count, avg_velocity, sd_velocity)
    ELSE /\ SkipSection
         /\ UNCHANGED stdout

\* with a warning printed for a section without valid particles
LogFileProcessor_process_section_warn_empty(data, valid_particle_count, avg_velocity, sd_velocity) ==
    IF valid_particle_count > 0
    THEN IF NoLimits(determine_xs(data, section_number))
         THEN /\ stdout' = Append(stdout, Msg("warning", section_number))
              /\ SkipSection
         ELSE AppendAndPlot(data, determine_xs(data, section_number),
                            valid_particle_count, avg_velocity, sd_velocity)
    ELSE /\ stdout' = Append(stdout, Msg("warning", section_number))
         /\ SkipSection

\* LogFileProcessor.process_section from line 134 on, for the section the
\* loop of __call__ is at
LogFileProcessor_process_section(data, valid_particle_count, avg_velocity, sd_velocity) ==
    IF valid_particle_count > 0
    THEN IF NoLimits(determine_xs(data, section_number))
         THEN /\ stdout' = Append(stdout, Msg("warning", section_number))
              /\ SkipSection
         ELSE AppendAndPlot(data, determine_xs(data, section_number),
                            valid_particle_count, avg_velocity, sd_velocity)
    ELSE /\ SkipSection
         /\ UNCHANGED stdout

\* Main.process_section from line 130 on: left_value, right_value =
\* xs_limits.get(current_xs) unpacks None when the bucket has no limits
Main_process_section(data, valid_particle_count, avg_velocity, sd_velocity) ==
    IF valid_particle_count > 0
    THEN IF NoLimits(determine_xs(data, section_number))
         THEN /\ Abort("TypeError")
              /\ UNCHANGED <<section_number, data_list, plots, stdout>>
         ELSE AppendAndPlot(data, determine_xs(data, section_number),
                            valid_particle_count, avg_velocity, sd_velocity)
    ELSE /\ SkipSection
         /\ UNCHANGED stdout

\* process_section of the driver that runs, given the result of setup_section
process_section(setup) ==
    IF setup.kind = "raise"
    THEN /\ Abort(setup.exc)
         /\ UNCHANGED <<section_number, data_list, plots, stdout>>
    ELSE IF driver = "Main"
         THEN Main_process_section(setup.val[1], setup.val[2], setup.val[3],
                                   setup.val[4])
         ELSE LogFileProcessor_process_section(setup.val[1], setup.val[2],
                                               setup.val[3], setup.val[4])

\* one iteration of the loop of __call__
ProcessSection ==
    /\ pc = "process_section"
    /\ section_number <= Len(sections)
    /\ process_section(setup_section(CalculatorOf(driver), sections[section_number]))
    /\ UNCHANGED <<driver, file_path, cfg_file_path, log, opened, sections,
                   avg_particles, csv, df_sorted, mean_value, call, ret>>

\* calculate_pandas_values / calculate_panda_values, once the loop is over:
\* sort_values by a column an empty frame does not have raises KeyError
CalculatePandasValues ==
    /\ pc = "process_section"
    /\ section_number > Len(sections)
    /\ IF data_list = <<>>
       THEN /\ Abort("KeyError")
            /\ UNCHANGED <<df_sorted, mean_value, csv, stdout>>
       ELSE /\ df_sorted' \in sort_values(data_list)
            /\ mean_value' = <<SumSd(data_list), Len(data_list)>>
            /\ csv' = data_list
            /\ stdout' = stdout \o <<Msg("head", Len(data_list)),
                                     Msg("mean sd_velocity", Len(data_list)),
                                     Msg("sorted head", Len(data_list))>>
            /\ pc' = "global_var"
            /\ UNCHANGED exc
    /\ UNCHANGED <<driver, file_path, cfg_file_path, log, opened, sections,
                   avg_particles, section_number, data_list, plots, call, ret>>

\* sum_global_var and subtract_global_var, the last two statements of __call__
GlobalVar ==
    /\ pc = "global_var"
    /\ stdout' = stdout \o <<Msg("sum_global_var", var1 + var2 + var3),
                             Msg("subtract_global_var", var1 - var2 - var3)>>
    /\ pc' = "done"
    /\ UNCHANGED <<driver, file_path, cfg_file_path, log, exc, opened, sections,
                   avg_particles, section_number, data_list, plots, csv,
                   df_sorted, mean_value, call, ret>>

Next ==
    \/ EntryPoint
    \/ ExtractSections
    \/ CalculateAverageParticleCount
    \/ ProcessSection
    \/ CalculatePandasValues
    \/ GlobalVar

Spec == Init /\ [][Next]_vars

\* ------------------------------------------------------ single function calls

\* every line parse_line can tell apart
FnLines ==
    { Line(FALSE, tag, key, vector, velocity, xs) :
        tag \in BOOLEAN, key \in BOOLEAN,
        vector \in { <<>>, GoodVector, <<NDots, N150, N80>>, <<N150, NDash, N80>>,
                     <<N150, NNeg, NDots>> },
        velocity \in { <<>>, N120, N126, NNeg, NDash },
        xs \in { <<>>, <<"1">>, <<"0", "7">> } }

\* the lines of the sections handed to extract_valid_particles
SectionLines ==
    { Noise, Particle(<<"1">>, N120), Particle(<<"4">>, N126), Untagged,
      BadVelocity, BadX, BadUntagged,
      Line(FALSE, TRUE, FALSE, GoodVector, N120, <<"1">>) }

\* a delimiter line that carries the four tokens as well
StopParticle == Line(TRUE, TRUE, TRUE, GoodVector, N120, <<"1">>)

SplitLines == { StopLine, StopParticle, Noise, Particle(<<"1">>, N120) }

\* a record as parse_line builds it, with the given raw cross-section id
RecordOf(xs) == <<15000, 8000, 12000, xs>>

DataArrays ==
    SeqsUpTo({RecordOf(xs) : xs \in 0..MaxXsRaw}, MaxDataLen) \ {<<>>}

\* sections by their valid particles: none, one bucket, mixed, unresolved
SectionKinds ==
    { <<>>, <<Noise, Untagged>>,
      <<Particle(<<"1">>, N120)>>,
      <<Particle(<<"1">>, N120), Noise, Particle(<<"1">>, N80)>>,
      <<Particle(<<"1">>, N120), Particle(<<"2">>, N80)>>,
      <<Particle(<<"4">>, N120), Particle(<<"4">>, N120)>>,
      <<Particle(<<"5">>, N120)>>, <<BadVelocity>> }

EmptySections(n) == [i \in 1..n |-> <<>>]

\* section sequences that reach the section numbers 20 and 40
SectionSeqs ==
    { EmptySections(k) \o tail :
        k \in {0, 18, 38}, tail \in SeqsUpTo(SectionKinds, MaxFnLen) }

\* rows as process_section appends them; two buckets tell rows of equal
\* sd_velocity apart
ReportRows ==
    SeqsUpTo({Row(xs, 1, 10000, sd, 12000) : xs \in {11, 41}, sd \in {0, 1000, 2000}},
             MaxRows)

CallOf(fn, lines, secs, data, n) ==
    [fn |-> fn, lines |-> lines, sections |-> secs, data |-> data, n |-> n]

Calls ==
    {CallOf("parse_line", <<l>>, <<>>, <<>>, 0) : l \in FnLines}
    \cup {CallOf("extract_valid_particles", sec, <<>>, <<>>, 0) :
            sec \in SeqsUpTo(SectionLines, MaxFnLen)}
    \cup {CallOf("extract_sections", ls, <<>>, <<>>, 0) :
            ls \in SeqsUpTo(SplitLines, MaxFnLen + 1)}
    \cup {CallOf("determine_xs", <<>>, <<>>, d, n) :
            d \in DataArrays, n \in 1..MaxSectionNumber}
    \cup {CallOf("calculate_average_particle_count", <<>>, secs, <<>>, 0) :
            secs \in SectionSeqs}
    \cup {CallOf("calculate_pandas_values", <<>>, <<>>, <<>>, 0)}

InitFn ==
    /\ driver = "LogFileProcessor"
    /\ log = <<>>
    /\ file_path = "<unbound>"
    /\ cfg_file_path = DefaultPath
    /\ pc = "call"
    /\ exc = "none"
    /\ opened = "<none>"
    /\ sections = <<>>
    /\ avg_particles = XsZero
    /\ section_number = 1
    /\ call \in Calls
    \* calculate_pandas_values reads self.data_list
    /\ data_list \in (IF call.fn = "calculate_pandas_values"
                      THEN ReportRows ELSE {<<>>})
    /\ plots = <<>>
    /\ stdout = <<>>
    /\ csv = <<"absent">>
    /\ df_sorted = <<>>
    /\ mean_value = <<0, 0>>
    /\ ret = NoRet

Pending(fn) ==
    /\ pc = "call"
    /\ call.fn = fn
    /\ ret = NoRet

Call_parse_line ==
    /\ Pending("parse_line")
    /\ ret' = parse_line(call.lines[1])
    /\ UNCHANGED <<runVars, call>>

Call_extract_valid_particles ==
    /\ Pending("extract_valid_particles")
    /\ ret' = extract_valid_particles(call.lines)
    /\ UNCHANGED <<runVars, call>>

Call_extract_sections ==
    /\ Pending("extract_sections")
    /\ ret' = Ok(extract_sections(call.lines))
    /\ UNCHANGED <<runVars, call>>

Call_determine_xs ==
    /\ Pending("determine_xs")
    /\ ret' = Ok(determine_xs(call.data, call.n))
    /\ UNCHANGED <<runVars, call>>

Call_calculate_average_particle_count ==
    /\ Pending("calculate_average_particle_count")
    /\ ret' = calculate_average_particle_count("ParticleAttibuteCalculator",
                                               call.sections)
    /\ UNCHANGED <<runVars, call>>

Call_calculate_pandas_values ==
    /\ Pending("calculate_pandas_values")
    /\ IF data_list = <<>>
       THEN /\ ret' = Raise("KeyError")
            /\ UNCHANGED <<df_sorted, mean_value, csv, stdout>>
       ELSE /\ df_sorted' \in sort_values(data_list)
            /\ mean_value' = <<SumSd(data_list), Len(data_list)>>
            /\ csv' = data_list
            /\ stdout' = stdout \o <<Msg("head", Len(data_list)),
                                     Msg("mean sd_velocity", Len(data_list)),
                                     Msg("sorted head", Len(data_list))>>
            /\ ret' = None
    /\ UNCHANGED <<driver, file_path, cfg_file_path, log, pc, exc, opened,
                   sections, avg_particles, section_number, data_list, plots,
                   call>>

NextFn ==
    \/ Call_parse_line
    \/ Call_extract_valid_particles
    \/ Call_extract_sections
    \/ Call_determine_xs
    \/ Call_calculate_average_particle_count
    \/ Call_calculate_pandas_values

SpecFn == InitFn /\ [][NextFn]_vars

\* ================================================================= claims

\* the k-th smallest element of a set of numbers
KthOf(S, k) == CHOOSE i \in S : Cardinality({j \in S : j < i}) = k - 1

\* the single call of function fn has returned or raised
Returned(fn) == pc = "call" /\ call.fn = fn /\ ret # NoRet

\* the line contains the four tokens KEY, VECTOR, VELOCITY and XS
HasFourTokens(l) ==
    l.key /\ l.vector # <<>> /\ l.velocity # <<>> /\ l.xs # <<>>

\* a numeral float() rejects among those the code converts
MalformedParsed(l) ==
    ~IsFloat(l.vector[2]) \/ ~IsFloat(l.vector[3]) \/ ~IsFloat(l.velocity)

\* a numeral float() would reject anywhere in the tokens
MalformedAny(l) == MalformedParsed(l) \/ ~IsFloat(l.vector[1])

\* the records of the lines at the positions S, in line order
RecordsAt(lines, S) ==
    [k \in 1..Cardinality(S) |-> parse_line(lines[KthOf(S, k)]).val]

AcceptedLines(lines) ==
    {i \in 1..Len(lines) : parse_line(lines[i]).kind = "ok"}

TaggedAcceptedLines(lines) ==
    {i \in 1..Len(lines) : lines[i].tag /\ parse_line(lines[i]).kind = "ok"}

TaggedRaisingLines(lines) ==
    {i \in 1..Len(lines) : lines[i].tag /\ parse_line(lines[i]).kind = "raise"}

\* C1 as stated: extract_valid_particles returns, in line order, one record
\* for every line of the section that parse_line accepts, whatever else the
\* line contains
C1_EveryAcceptedLine ==
    (Returned("extract_valid_particles") /\ ret.kind = "ok")
        => ret.val = RecordsAt(call.lines, AcceptedLines(call.lines))

\* C1 amended: extract_valid_particles returns, in line order, one record for
\* every line that contains "LogBlueprintUserMessages" and that parse_line
\* accepts, and nothing else; it raises exactly when parse_line raises on such
\* a marked line
C1_EveryTaggedAcceptedLine ==
    Returned("extract_valid_particles")
        => IF TaggedRaisingLines(call.lines) # {}
           THEN ret.kind = "raise" /\ ret.exc = "ValueError"
           ELSE /\ ret.kind = "ok"
                /\ ret.val = RecordsAt(call.lines, TaggedAcceptedLines(call.lines))

\* a section with two marked particle lines and an unmarked one in between
C1_Witness ==
    /\ Returned("extract_valid_particles")
    /\ ret.kind = "ok"
    /\ Len(call.lines) = 3
    /\ call.lines[2] = Untagged
    /\ Len(ret.val) = 2
    /\ ret.val[1] # ret.val[2]

\* C2: parse_line returns None or a complete record of four fields; a line
\* that lacks any one of the four tokens gives None, and a record is built
\* only from a line with all four tokens, with the cross-section id of its XS
\* token
C2_NoPartialRecord ==
    Returned("parse_line")
        => /\ ret.kind \in {"none", "ok", "raise"}
           /\ ~HasFourTokens(call.lines[1]) => ret = None
           /\ ret.kind = "none" => ret.val = <<>> /\ ~HasFourTokens(call.lines[1])
           /\ ret.kind = "ok" =>
                 /\ HasFourTokens(call.lines[1])
                 /\ Len(ret.val) = 4
                 /\ ret.val[4] = IntOfDigits(call.lines[1].xs)
           /\ ret.kind = "raise" =>
                 HasFourTokens(call.lines[1]) /\ MalformedParsed(call.lines[1])

\* a line with three of the four tokens: only XS is absent
C2_Witness ==
    /\ Returned("parse_line")
    /\ call.lines[1].key
    /\ call.lines[1].vector = GoodVector
    /\ call.lines[1].velocity = N120
    /\ call.lines[1].xs = <<>>
    /\ ret = None

StopIdx(lines) == {i \in 1..Len(lines) : lines[i].stop}

LastStop(lines) ==
    IF StopIdx(lines) = {} THEN 0 ELSE KthOf(StopIdx(lines), Cardinality(StopIdx(lines)))

\* the lines between delimiter k - 1 (or the start) and delimiter k (or the end)
Piece(lines, k) ==
    SubSeq(lines,
           (IF k = 1 THEN 0 ELSE KthOf(StopIdx(lines), k - 1)) + 1,
           (IF k <= Cardinality(StopIdx(lines))
            THEN KthOf(StopIdx(lines), k) ELSE Len(lines) + 1) - 1)

RECURSIVE Flatten(_)
Flatten(ss) == IF ss = <<>> THEN <<>> ELSE ss[1] \o Flatten(Tail(ss))

NotStop(l) == ~l.stop

\* what C3 says of every log, but for the log without delimiter
SplitsAtDelimiters(lines, secs) ==
    /\ Len(secs) = Cardinality(StopIdx(lines))
                     + (IF Len(lines) > LastStop(lines) THEN 1 ELSE 0)
    /\ \A k \in 1..Len(secs) : secs[k] = Piece(lines, k)
    /\ \A k \in 1..Len(secs) : \A j \in 1..Len(secs[k]) : ~secs[k][j].stop
    /\ Flatten(secs) = SelectSeq(lines, NotStop)
    /\ (lines # <<>> /\ lines[Len(lines)].stop)
          => Len(secs) = Cardinality(StopIdx(lines))

\* C3 as stated: every delimiter line closes the current section and is in no
\* section, the sections concatenated are the lines without the delimiter
\* lines, a log with zero delimiters gives exactly one section with all the
\* lines, a non-empty trailing section is emitted, and a log that ends right
\* after a delimiter has no trailing empty section
C3_SplitAsStated ==
    Returned("extract_sections")
        => /\ SplitsAtDelimiters(call.lines, ret.val)
           /\ StopIdx(call.lines) = {} => ret.val = <<call.lines>>

\* C3 amended: as stated, except that only a non-empty log with zero
\* delimiters gives exactly one section with all the lines; the empty log
\* gives no section
C3_Split ==
    Returned("extract_sections")
        => /\ SplitsAtDelimiters(call.lines, ret.val)
           /\ (StopIdx(call.lines) = {} /\ call.lines # <<>>)
                 => ret.val = <<call.lines>>
           /\ call.lines = <<>> => ret.val = <<>>

\* a log with an empty section between two delimiters that ends right after
\* the last delimiter
C3_Witness ==
    /\ Returned("extract_sections")
    /\ Len(call.lines) = 4
    /\ StopIdx(call.lines) = {2, 3, 4}
    /\ Len(ret.val) = 3
    /\ ret.val[1] = <<call.lines[1]>>
    /\ ret.val[2] = <<>>

\* the mean of the raw cross-section ids cut to an integer
TruncatedMean(data) ==
    CHOOSE m \in 0..(MaxXsRaw + 1) :
        /\ m * Len(data) <= SumColumn(data, 4)
        /\ SumColumn(data, 4) < (m + 1) * Len(data)

BucketOf(m, section_index) ==
    CASE m = 1 -> (IF section_index < 20 THEN 11 ELSE 12)
      [] m = 4 -> (IF section_index < 40 THEN 41 ELSE 42)
      [] m = 2 -> (IF section_index < 50 THEN 21 ELSE 22)
      [] m = 3 -> (IF section_index < 60 THEN 31 ELSE 32)
      [] OTHER -> Unresolved

\* C4: determine_xs maps the truncated mean of cross_section_raw and the
\* section index to 1 -> 11/12 at 20, 4 -> 41/42 at 40, 2 -> 21/22 at 50,
\* 3 -> 31/32 at 60, and anything else to unresolved
C4_DetermineXs ==
    Returned("determine_xs")
        => ret.val = BucketOf(TruncatedMean(call.data), call.n)

\* a mean of 1.5 (nearest even integer 2) at section 20 gives bucket 12
C4_Witness ==
    /\ Returned("determine_xs")
    /\ Len(call.data) = 2
    /\ SumColumn(call.data, 4) = 3
    /\ call.n = 20
    /\ ret.val = 12

\* the sections of the call that count for bucket b
Contributing(b) ==
    {i \in 1..Len(call.sections) :
        /\ extract_valid_particles(call.sections[i]).kind = "ok"
        /\ Len(extract_valid_particles(call.sections[i]).val) > 0
        /\ determine_xs(extract_valid_particles(call.sections[i]).val, i) = b}

RECURSIVE ParticlesIn(_)
\* the valid particles of the sections at the positions S, counted
ParticlesIn(S) ==
    IF S = {} THEN 0
    ELSE Len(extract_valid_particles(call.sections[KthOf(S, 1)]).val)
           + ParticlesIn(S \ {KthOf(S, 1)})

\* C5: calculate_average_particle_count returns a mapping with exactly the
\* eight bucket keys; a bucket's value is the particles of its sections over
\* the number of its sections, rounded to one decimal, and 0 without a
\* section; sections without valid particle or without bucket count nowhere.
\* (It returns unless a marked line carries a malformed numeral.)
C5_BucketAverages ==
    Returned("calculate_average_particle_count")
        => IF \E i \in 1..Len(call.sections) :
                 extract_valid_particles(call.sections[i]).kind = "raise"
           THEN ret.kind = "raise"
           ELSE /\ ret.kind = "ok"
                /\ DOMAIN ret.val = {11, 12, 21, 22, 31, 32, 41, 42}
                /\ \A b \in DOMAIN ret.val :
                      ret.val[b] =
                          IF Contributing(b) = {} THEN 0
                          ELSE RoundTo(ParticlesIn(Contributing(b)) * Scale,
                                       Cardinality(Contributing(b)), Scale \div 10)

\* sections with 1, 2 and 2 particles of bucket 11: 5 / 3 rounds to 1.7
C5_Witness ==
    /\ Returned("calculate_average_particle_count")
    /\ ret.kind = "ok"
    /\ Cardinality(Contributing(11)) = 3
    /\ ParticlesIn(Contributing(11)) = 5
    /\ ret.val[11] = 17000
    /\ ret.val[12] = 0

\* ------------------------------------------------------------ the whole run

\* the valid particles of section i, as the calculator of the driver finds them
ValidOf(i) == CallCalculator(CalculatorOf(driver), sections[i])

HasValid(i) == ValidOf(i).kind = "ok" /\ Len(ValidOf(i).val) > 0

\* section i has valid particles and a bucket with limits
Reportable(i) == HasValid(i) /\ determine_xs(ValidOf(i).val, i) \in XsKeys

\* section i has valid particles and no bucket
UnresolvedAt(i) == HasValid(i) /\ determine_xs(ValidOf(i).val, i) \notin XsKeys

ReportableSections == {i \in 1..Len(sections) : Reportable(i)}

\* the loop of __call__ is about to hand section section_number to
\* process_section
AtSection == pc = "process_section" /\ section_number <= Len(sections)

\* C6: after a complete run data_list holds one row for each section with at
\* least one valid particle and a resolvable bucket, in section order, and no
\* other row; as many pictures and exported rows as rows; the picture of a
\* row carries the 1-based number of its section among all sections
C6_OneRowPerReportedSection ==
    pc = "done"
        => /\ Len(data_list) = Cardinality(ReportableSections)
           /\ Len(plots) = Len(data_list)
           /\ csv = data_list
           /\ \A k \in 1..Len(data_list) :
                 /\ plots[k].section_plot = KthOf(ReportableSections, k)
                 /\ data_list[k].xs =
                       determine_xs(ValidOf(KthOf(ReportableSections, k)).val,
                                    KthOf(ReportableSections, k))
                 /\ data_list[k].valid_particle_count =
                       Len(ValidOf(KthOf(ReportableSections, k)).val)

\* LogFileProcessor completes a run whose first section has no bucket: the
\* one row and picture are those of section 2
C6_Witness ==
    /\ pc = "done"
    /\ driver = "LogFileProcessor"
    /\ Len(sections) = 2
    /\ UnresolvedAt(1)
    /\ Len(data_list) = 1
    /\ plots[1].section_plot = 2
    /\ csv = data_list

\* C7 as stated, for both drivers: process_section on a section with valid
\* particles and an unresolved bucket prints a warning, appends no row, writes
\* no picture, and the loop goes on to the next section
C7_UnresolvedIsSkipped ==
    [][(AtSection /\ UnresolvedAt(section_number))
          => /\ stdout' = Append(stdout, Msg("warning", section_number))
             /\ data_list' = data_list
             /\ plots' = plots
             /\ pc' = "process_section"
             /\ section_number' = section_number + 1]_vars

\* the part of C7 that is about LogFileProcessor
C7_LogFileProcessorSkips ==
    [][(AtSection /\ UnresolvedAt(section_number) /\ driver = "LogFileProcessor")
          => /\ stdout' = Append(stdout, Msg("warning", section_number))
             /\ data_list' = data_list
             /\ plots' = plots
             /\ pc' = "process_section"
             /\ section_number' = section_number + 1]_vars

\* C8 as stated: a section without valid particles gets no row, a warning is
\* printed for it, and the loop goes on to the next section
C8_EmptyIsSkippedWithWarning ==
    [][(AtSection /\ ValidOf(section_number).kind = "ok" /\ ~HasValid(section_number))
          => /\ data_list' = data_list
             /\ plots' = plots
             /\ stdout' = Append(stdout, Msg("warning", section_number))
             /\ pc' = "process_section"
             /\ section_number' = section_number + 1]_vars

\* C8 amended: a section without valid particles gets no row and no picture,
\* nothing is printed for it, and the loop goes on to the next section
C8_EmptyIsSkippedSilently ==
    [][(AtSection /\ ValidOf(section_number).kind = "ok" /\ ~HasValid(section_number))
          => /\ data_list' = data_list
             /\ plots' = plots
             /\ stdout' = stdout
             /\ pc' = "process_section"
             /\ section_number' = section_number + 1]_vars

\* the loop is past a first section that has lines but no valid particle
C8_Witness ==
    /\ pc = "process_section"
    /\ section_number = 2
    /\ Len(sections) = 2
    /\ sections[1] # <<>>
    /\ ValidOf(1).kind = "ok"
    /\ ~HasValid(1)
    /\ data_list = <<>>
    /\ plots = <<>>
    /\ stdout = <<>>

\* the run has not got past the first pass over the sections
NotPastFirstPass ==
    /\ pc \in {"main", "extract_sections", "calculate_average_particle_count", "error"}
    /\ data_list = <<>>
    /\ plots = <<>>
    /\ csv = <<"absent">>

\* C9 as stated: a line of a section that matches the four patterns and
\* carries a malformed numeral aborts the run; it is never dropped or made a
\* record and the run never completes
C9_MalformedAborts ==
    (\E i \in 1..Len(log) :
        ~log[i].stop /\ HasFourTokens(log[i]) /\ MalformedAny(log[i]))
        => NotPastFirstPass

\* C9 amended: a line of a section that contains "LogBlueprintUserMessages",
\* matches the four patterns and carries a malformed numeral in the Y or Z
\* component or in the velocity aborts the run with an exception in the first
\* pass: no row, no picture and no export are produced and the run never
\* completes
C9_MalformedParsedAborts ==
    (\E i \in 1..Len(log) :
        /\ ~log[i].stop
        /\ log[i].tag
        /\ HasFourTokens(log[i])
        /\ MalformedParsed(log[i]))
        => /\ NotPastFirstPass
           /\ pc = "error" => exc \in {"ValueError", "NameError"}

\* the run of a log with a malformed velocity after a good particle line has
\* ended with ValueError
C9_Witness ==
    /\ pc = "error"
    /\ exc = "ValueError"
    /\ Len(log) = 2
    /\ log[1] = Particle(<<"1">>, N120)
    /\ log[2] = BadVelocity
    /\ opened # "<none>"
    /\ data_list = <<>>

\* C10 as stated, for LogFileProcessor and a log that was read: without a
\* malformed numeral in the log the run does not end on an exception, and
\* when it is complete the export holds the rows of the report
C10_CompletesWithoutMalformed ==
    (/\ driver = "LogFileProcessor"
     /\ opened # "<none>"
     /\ \A i \in 1..Len(log) :
           HasFourTokens(log[i]) => ~MalformedAny(log[i]))
        => /\ pc # "error"
           /\ pc = "done" => csv = data_list

\* ------------------------------------------------- calculate_pandas_values

\* calculate_pandas_values was called on a report with rows and has returned
Sorted == Returned("calculate_pandas_values") /\ ret.kind = "none"

\* the rows of the report that the sorted view puts before row i when rows of
\* equal sd_velocity keep their order
Before(i) ==
    {j \in 1..Len(data_list) :
        \/ data_list[j].sd_velocity > data_list[i].sd_velocity
        \/ data_list[j].sd_velocity = data_list[i].sd_velocity /\ j < i}

\* the sum of sd_velocity over the rows 1..n of the report
RECURSIVE SdUpTo(_)
SdUpTo(n) == IF n = 0 THEN 0 ELSE SdUpTo(n - 1) + data_list[n].sd_velocity

\* the mean is the sum of sd_velocity over the rows by the number of rows
MeanAsStated ==
    mean_value = <<SdUpTo(Len(data_list)), Len(data_list)>>

\* the sorted view holds every row as often as the report does and is ordered
\* by sd_velocity, largest first
PermutationDescending ==
    /\ Len(df_sorted) = Len(data_list)
    /\ \A r \in {data_list[i] : i \in 1..Len(data_list)} :
          Cardinality({k \in 1..Len(df_sorted) : df_sorted[k] = r})
              = Cardinality({i \in 1..Len(data_list) : data_list[i] = r})
    /\ \A k \in 1..(Len(df_sorted) - 1) :
          df_sorted[k].sd_velocity >= df_sorted[k + 1].sd_velocity

\* C11 as stated: the sorted view is the report ordered by sd_velocity
\* descending with rows of equal sd_velocity in their insertion order, and
\* the mean is the sum of sd_velocity by the number of rows
C11_StableDescending ==
    Sorted
        => /\ Len(df_sorted) = Len(data_list)
           /\ \A i \in 1..Len(data_list) :
                 df_sorted[Cardinality(Before(i)) + 1] = data_list[i]
           /\ MeanAsStated

\* C11 amended: for a report with rows the sorted view is a permutation of
\* the report rows ordered by sd_velocity descending, rows of equal
\* sd_velocity in no particular order, and the mean is the sum of sd_velocity
\* by the number of rows; for a report without rows the call raises KeyError
\* and produces neither
C11_PermutationDescending ==
    Returned("calculate_pandas_values")
        => IF data_list = <<>>
           THEN ret = Raise("KeyError") /\ df_sorted = <<>> /\ mean_value = <<0, 0>>
           ELSE Sorted /\ PermutationDescending /\ MeanAsStated

\* a report of three rows, two of them with the same sd_velocity, was sorted
\* and the two came out in the other order
C11_Witness ==
    /\ Sorted
    /\ Len(data_list) = 3
    /\ data_list[1].sd_velocity = 1000
    /\ data_list[2].sd_velocity = 2000
    /\ data_list[3].sd_velocity = 1000
    /\ data_list[1] # data_list[3]
    /\ df_sorted = <<data_list[2], data_list[3], data_list[1]>>
    /\ mean_value = <<4000, 3>>

\* -------------------------------------------------------------- the log path

\* the run is past the statement that opens the log
PastOpen == pc \notin {"main", "extract_sections"}

\* C12 as stated: the path extract_sections opens is the one stored by
\* set_file_path when the positional argument is given and the default path
\* otherwise, i.e. the value of config._file_path when the run starts
C12_OpensConfiguredPath ==
    PastOpen => opened = cfg_file_path

\* ------------------------------------------------------------ the two passes

\* bucket and number of valid particles of section i, given what the
\* calculator finds in it; <<Unresolved, 0>> for a section that counts nowhere
Counted(data, i) ==
    IF data.kind = "ok" /\ Len(data.val) > 0
    THEN <<determine_xs(data.val, i), Len(data.val)>>
    ELSE <<Unresolved, 0>>

RECURSIVE CountedUpTo(_)
\* bucket and number of valid particles of the sections 1..n of the log
CountedUpTo(n) ==
    IF n = 0 THEN <<>>
    ELSE Append(CountedUpTo(n - 1), Counted(ValidOf(n), n))

RECURSIVE ValidIn(_, _, _)
\* the valid particles of the sections 1..n that count for bucket b
ValidIn(t, b, n) ==
    IF n = 0 THEN 0
    ELSE ValidIn(t, b, n - 1) + (IF t[n][1] = b THEN t[n][2] ELSE 0)

\* the average of bucket b over the whole log, t being CountedUpTo of it
FinalAverage(t, b) ==
    IF \A i \in 1..Len(t) : t[i][1] # b THEN 0
    ELSE RoundTo(ValidIn(t, b, Len(t)) * Scale,
                 Cardinality({i \in 1..Len(t) : t[i][1] = b}), Scale \div 10)

\* the first pass is over
SecondPass ==
    pc \notin {"main", "extract_sections", "calculate_average_particle_count"}
        /\ exc \notin {"NameError", "ValueError"}

\* the averages are those of the whole log, and every row and every picture
\* carries the average of its bucket over the whole log
AveragesAreFinalFor(t) ==
    /\ \A b \in XsKeys : avg_particles[b] = FinalAverage(t, b)
    /\ \A k \in 1..Len(data_list) :
          data_list[k].avg_particle = FinalAverage(t, data_list[k].xs)
    /\ \A k \in 1..Len(plots) :
          plots[k].avg_particle = FinalAverage(t, t[plots[k].section_plot][1])

AveragesAreFinal == AveragesAreFinalFor(CountedUpTo(Len(sections)))

\* C13: no row is appended and no picture written before the averages are
\* computed over all sections; the averages never change afterwards; the
\* avg_particle of every row and of every picture is the final average of
\* its bucket over the whole log, later sections included
C13_TwoPasses ==
    /\ [](IF SecondPass THEN AveragesAreFinal
                        ELSE data_list = <<>> /\ plots = <<>>)
    /\ [][SecondPass => avg_particles' = avg_particles]_vars

\* the row and the picture of section 1, which has one particle, carry the
\* average 1.5 of bucket 11, to which section 2 adds two particles
C13_Witness ==
    /\ pc = "process_section"
    /\ section_number = 2
    /\ Len(sections) = 2
    /\ Len(data_list) = 1
    /\ data_list[1].xs = 11
    /\ data_list[1].valid_particle_count = 1
    /\ data_list[1].avg_particle = 15000
    /\ plots[1].section_plot = 1
    /\ plots[1].avg_particle = 15000
    /\ Len(ValidOf(2).val) = 2

\* ------------------------------------------------- the two passes agree

\* the loop of __call__ has handed every section to process_section
LoopIsOver == SecondPass /\ section_number > Len(sections)

\* the rows of the report with bucket b
RowsOf(b) == {k \in 1..Len(data_list) : data_list[k].xs = b}

RECURSIVE ParticlesOfRows(_, _)
\* the sum of valid_particle_count over the rows 1..n with bucket b
ParticlesOfRows(b, n) ==
    IF n = 0 THEN 0
    ELSE ParticlesOfRows(b, n - 1)
           + (IF data_list[n].xs = b THEN data_list[n].valid_particle_count ELSE 0)

\* t being CountedUpTo of the log: as many rows of a bucket as sections that
\* counted for its average, the average is that of the rows, no row with an
\* average below 1
PassesAgreeFor(t) ==
    /\ \A b \in XsKeys :
          /\ Cardinality(RowsOf(b)) = Cardinality({i \in 1..Len(t) : t[i][1] = b})
          /\ avg_particles[b] =
                IF RowsOf(b) = {} THEN 0
                ELSE RoundTo(ParticlesOfRows(b, Len(data_list)) * Scale,
                             Cardinality(RowsOf(b)), Scale \div 10)
    /\ \A k \in 1..Len(data_list) :
          /\ data_list[k].xs \in XsKeys
          /\ data_list[k].avg_particle >= Scale

\* C14: once every section is processed, for every bucket the number of rows
\* with that bucket is the number of sections that contributed to its
\* average, and its average is the sum of valid_particle_count over those
\* rows by their number, rounded to one decimal; every row has
\* avg_particle >= 1 and a bucket without row has average 0
C14_PassesAgree ==
    LoopIsOver => PassesAgreeFor(CountedUpTo(Len(sections)))

\* a complete run over a one-particle and a two-particle section of bucket 11
\* and none of bucket 41
C14_Witness ==
    /\ pc = "done"
    /\ Len(sections) = 2
    /\ RowsOf(11) = {1, 2}
    /\ data_list[1].valid_particle_count = 1
    /\ data_list[2].valid_particle_count = 2
    /\ avg_particles[11] = 15000
    /\ RowsOf(41) = {}
    /\ avg_particles[41] = 0

\* ------------------------------------------------ empty sections are counted

RECURSIVE IndexUpTo(_)
\* for the lines 1..n of the log, the number of delimiter lines before the
\* line plus one
IndexUpTo(n) ==
    IF n = 0 THEN <<>>
    ELSE Append(IndexUpTo(n - 1),
                1 + Cardinality({i \in 1..(n - 1) : log[i].stop}))

RECURSIVE LinesWithIndex(_, _, _)
\* the lines among 1..n of the log that are no delimiter and have k - 1
\* delimiter lines before them, idx being IndexUpTo of the log
LinesWithIndex(idx, k, n) ==
    IF n = 0 THEN <<>>
    ELSE IF idx[n] = k /\ ~log[n].stop
         THEN Append(LinesWithIndex(idx, k, n - 1), log[n])
         ELSE LinesWithIndex(idx, k, n - 1)

\* bucket of the lines with k - 1 delimiters before them, taken as section k
BucketAt(lines, k) ==
    BucketOf(TruncatedMean(CallCalculator(CalculatorOf(driver), lines).val), k)

EmptySectionsCountFor(idx) ==
    /\ Len(sections) = Cardinality(StopIdx(log))
                         + (IF log # <<>> /\ ~log[Len(log)].stop THEN 1 ELSE 0)
    /\ \A k \in 1..Len(sections) : sections[k] = LinesWithIndex(idx, k, Len(log))
    /\ Len(plots) = Len(data_list)
    /\ \A k \in 1..Len(plots) :
          /\ plots[k].section_plot \in 1..Len(sections)
          /\ k > 1 => plots[k - 1].section_plot < plots[k].section_plot
          /\ data_list[k].valid_particle_count =
                Len(CallCalculator(CalculatorOf(driver),
                        LinesWithIndex(idx, plots[k].section_plot, Len(log))).val)
          /\ data_list[k].xs =
                BucketAt(LinesWithIndex(idx, plots[k].section_plot, Len(log)),
                         plots[k].section_plot)

\* C15: there is one section per delimiter line, empty or not, plus one if a
\* line follows the last delimiter; section k holds the lines with k - 1
\* delimiter lines before them, so an empty section takes an index, and that
\* index is the one determine_xs compares with 20/40/50/60 for a row and the
\* number of its picture
C15_EmptySectionsCount ==
    opened # "<none>" => EmptySectionsCountFor(IndexUpTo(Len(log)))

\* behind PadStops empty sections the same particle line gives bucket 11 as
\* section 19 and bucket 12 as section 20
C15_Witness ==
    /\ pc = "done"
    /\ Len(log) = PadStops + 3
    /\ Len(sections) = PadStops + 2
    /\ \A k \in 1..PadStops : sections[k] = <<>>
    /\ sections[PadStops + 1] = sections[PadStops + 2]
    /\ Len(plots) = 2
    /\ plots[1].section_plot = PadStops + 1
    /\ plots[2].section_plot = PadStops + 2
    /\ data_list[1].xs = 11
    /\ data_list[2].xs = 12

====
